---- MODULE Spec2Model ----
(***************************************************************************)
(* add_flickr_photos_to_album.py: authenticate, page through a user's      *)
(* photos, keep those taken with one camera model, and put them in an      *)
(* album (a new one, or an existing one).                                  *)
(*                                                                         *)
(* Python strings that the program inspects character by character         *)
(* (camera model, machine tags, EXIF labels and values) are sequences of   *)
(* one-character strings.  Optional[str] is a sequence of length at most   *)
(* one: <<>> is None and <<s>> is the string s.  time.sleep changes no     *)
(* state and is left out.                                                  *)
(***************************************************************************)
EXTENDS Integers, Sequences, FiniteSets, TLC

\* ------------------------------------------------------------------ bounds
\* photo identifiers are 1..MaxId
MaxId == 2
\* the remote search reports at most MaxPages pages
MaxPages == 2
\* records on one page of the search (search_photos_by_user on its own)
MaxPageLen == 2
\* length of the camera model string (tag matching on its own)
MaxModelLen == 2
\* photo ids handed to add_photos_to_photoset (on its own)
MaxAddLen == 3
\* length of a machine-tag string (tag matching on its own)
MaxTagLen == 3
\* entries of one getExif answer (EXIF fallback on its own)
MaxExifLen == 2

\* ----------------------------------------------------------------- strings
Letters == {"a", "A", "b"}
Separators == {" ", "-", "_"}
Alphabet == Letters \cup Separators

\* the strings over S of length at most n
StrUpTo(S, n) == UNION {[1..m -> S] : m \in 0..n}

\* one character of str.lower()
LowerChar(c) ==
    CASE c = "A" -> "a"
      [] c = "B" -> "b"
      [] c = "D" -> "d"
      [] c = "E" -> "e"
      [] c = "K" -> "k"
      [] c = "L" -> "l"
      [] c = "M" -> "m"
      [] c = "O" -> "o"
      [] OTHER -> c

\* str.lower()
lower(s) == [i \in 1..Len(s) |-> LowerChar(s[i])]

\* str.replace(c, '') for a one-character c
replace(s, c) == SelectSeq(s, LAMBDA x : x # c)

\* Python's `sub in s` on strings
contains(sub, s) ==
    \E i \in 1..(Len(s) - Len(sub) + 1) : SubSeq(s, i, i + Len(sub) - 1) = sub

\* Optional[str]
None == <<>>
Some(s) == <<s>>

\* truthiness of an Optional[str]: neither None nor ''
Truthy(o) == o # None /\ o[1] # <<>>

\* the literal 'model' of get_camera_for_photo
ModelLiteral == <<"m", "o", "d", "e", "l">>

\* ---------------------------------------------------- the remote service
Ids == 1..MaxId

\* a photo record of flickr.photos.search: its id and its machine tags ('' when
\* the photo has none)
Photo(id, tags) == [id |-> id, machine_tags |-> tags]

\* the 'raw' of an EXIF entry: a dict holding '_content', or a bare value
Raw(isdict, val) == [isdict |-> isdict, val |-> val]

\* one entry of the 'exif' list ('' stands for a missing 'label' or 'tag' key)
ExifTag(label, tag, raw) == [label |-> label, tag |-> tag, raw |-> raw]

\* an answer of flickr.photos.getExif: a FlickrError, or the 'exif' list
ExifError == [ok |-> FALSE, exif |-> <<>>]
ExifOk(tags) == [ok |-> TRUE, exif |-> tags]

\* an answer of flickr.photos.search
SearchResponse(photo, pages) == [photo |-> photo, pages |-> pages]

\* a remote call as the service sees it
Call(op, album, n) == [op |-> op, album |-> album, n |-> n]

\* the id the service gives a new photoset
NewPhotosetId == <<"9">>

\* --------------------------------------------------------- pure functions
\* mutant: the underscores are left in
strip_separators_keeps_underscore(s) == replace(replace(s, " "), "-")

\* .replace(' ', '').replace('-', '').replace('_', '')
strip_separators(s) == replace(replace(replace(s, " "), "-"), "_")

\* the machine-tag test of filter_photos_by_camera
tags_match(model, machine_tags) ==
    /\ machine_tags # <<>>
    /\ contains(strip_separators(lower(model)),
                strip_separators(lower(machine_tags)))

\* mutant: the label and the tag key are compared without lower()
is_model_tag_case_sensitive(tag) ==
    tag.label = ModelLiteral \/ tag.tag = ModelLiteral

\* tag.get('label', '').lower() == 'model' or tag.get('tag', '').lower() == 'model'
is_model_tag(tag) ==
    lower(tag.label) = ModelLiteral \/ lower(tag.tag) = ModelLiteral

\* the loop of get_camera_for_photo over the 'exif' list
RECURSIVE scan_exif(_)
scan_exif(tags) ==
    IF tags = <<>> THEN None
    ELSE IF is_model_tag(Head(tags)) THEN
        \* raw.get('_content') of a dict, the raw itself otherwise
        (IF Head(tags).raw.isdict THEN Head(tags).raw.val ELSE Head(tags).raw.val)
    ELSE scan_exif(Tail(tags))

\* get_camera_for_photo, given the answer of getExif
get_camera_for_photo(resp) ==
    IF ~resp.ok THEN None ELSE scan_exif(resp.exif)

\* `model and model.lower() == camera_model.lower()`
exif_matches(model, target) ==
    Truthy(model) /\ lower(model[1]) = lower(target)

\* mutant: `and` for `or`
credentials_missing_both(key, secret) == key = <<>> /\ secret = <<>>

\* `not api_key or not api_secret`
credentials_missing(key, secret) == key = <<>> \/ secret = <<>>

\* ------------------------------------------------------------------ state
VARIABLES
    pc,            \* where the run is
    api_key,       \* args.api_key
    api_secret,    \* args.api_secret
    camera_model,  \* args.camera_model
    photoset_arg,  \* args.photoset_id, an Optional[str]
    page,          \* search_photos_by_user: page
    photos,        \* search_photos_by_user: photos, then main: photos
    idx,           \* filter_photos_by_camera: position of the for loop
    matching_ids,  \* filter_photos_by_camera: matching_ids, then main's
    photoset_id,   \* main: photoset_id
    photo_ids,     \* add_photos_to_photoset: photo_ids
    k,             \* add_photos_to_photoset: position of the for loop
    album,         \* the service: photos this run has put in the photoset
    calls,         \* the service: every call it has received, in order
    fetched,       \* the service: every search answer it has given, in order
    judged,        \* per photo record seen by the filter: what was decided
    out,           \* what main has printed
    exit_status    \* the process's exit status, -1 while it runs

vars == <<pc, api_key, api_secret, camera_model, photoset_arg, page, photos,
          idx, matching_ids, photoset_id, photo_ids, k, album, calls, fetched,
          judged, out, exit_status>>

args == <<api_key, api_secret, camera_model, photoset_arg>>
search_vars == <<page, photos, fetched>>
filter_vars == <<idx, matching_ids, judged>>
album_vars == <<photoset_id, photo_ids, k, album>>

Range(s) == {s[i] : i \in 1..Len(s)}

\* --------------------------------------------------------- input domains
KeyStrings == {<<>>, <<"k">>}
ExistingPhotosetId == <<"7">>
PhotosetArgs == {None, Some(<<>>), Some(ExistingPhotosetId)}

LabelModel == <<"M", "o", "d", "e", "l">>
LabelMake == <<"M", "a", "k", "e">>

\* the whole run: one camera model, three kinds of machine tags, three kinds
\* of getExif answer, pages of at most one record
RunModels == {<<"A", "-", "b">>}
RunTags == {<<>>, <<"a", "_", "b">>, <<"b">>}
RunPhotos == {Photo(i, t) : i \in Ids, t \in RunTags}
RunPages == {<<>>} \cup {<<p>> : p \in RunPhotos}
RunExif ==
    { ExifError,
      ExifOk(<<ExifTag(LabelModel, <<>>, Raw(TRUE, Some(<<"a", "-", "B">>)))>>),
      ExifOk(<<ExifTag(LabelModel, <<>>, Raw(TRUE, Some(<<"a", "b">>)))>>) }

\* ------------------------------------------------------------------- main
\* main, lines 282-287: the credentials check
main_check_credentials ==
    /\ pc = "main"
    /\ IF credentials_missing(api_key, api_secret)
       THEN /\ out' = Append(out, "error: no key or secret")
            /\ exit_status' = 1
            /\ pc' = "exited"
       ELSE /\ pc' = "authenticate"
            /\ UNCHANGED <<out, exit_status>>
    /\ UNCHANGED <<args, search_vars, filter_vars, album_vars, calls>>

\* authenticate: token_valid, and authenticate_via_browser when it is not
authenticate ==
    /\ pc = "authenticate"
    /\ \E valid \in BOOLEAN, granted \in BOOLEAN :
         /\ calls' = calls \o <<Call("token_valid", <<>>, 0)>>
                \o (IF valid THEN <<>> ELSE <<Call("authenticate_via_browser", <<>>, 0)>>)
         /\ IF valid \/ granted
            THEN /\ pc' = "search"
                 /\ out' = Append(out, "searching")
                 /\ UNCHANGED exit_status
            ELSE /\ pc' = "raised"
                 /\ exit_status' = 1
                 /\ UNCHANGED out
    /\ UNCHANGED <<args, search_vars, filter_vars, album_vars>>

\* ------------------------------------------------- search_photos_by_user
\* mutant: `>` for `>=`
last_page_passed(p, response) == p > response.pages

\* `page >= int(response['photos']['pages'])`
last_page(p, response) == p >= response.pages

\* one turn of the while loop: fetch, extend, stop or go on
search_photos_by_user(Pages) ==
    /\ pc = "search"
    /\ \E photo \in Pages, pages \in 0..MaxPages :
         LET response == SearchResponse(photo, pages) IN
         /\ calls' = Append(calls, Call("search", <<>>, page))
         /\ fetched' = Append(fetched, response)
         /\ photos' = photos \o response.photo
         /\ IF last_page(page, response)
            THEN /\ pc' = "filter"
                 /\ out' = Append(out, "retrieved")
                 /\ UNCHANGED page
            ELSE /\ page' = page + 1
                 /\ UNCHANGED <<pc, out>>
    /\ UNCHANGED <<args, filter_vars, album_vars, exit_status>>

\* flickr.photos.search raises: nothing catches it
search_raises ==
    /\ pc = "search"
    /\ calls' = Append(calls, Call("search", <<>>, page))
    /\ pc' = "raised"
    /\ exit_status' = 1
    /\ UNCHANGED <<args, search_vars, filter_vars, album_vars, out>>

\* ----------------------------------------------- filter_photos_by_camera
\* what the filter decided for one record: by the tags or by a lookup, the
\* answer of the lookup, and the verdict
Judged(photo, by_tags, resp, matched) ==
    [photo |-> photo, by_tags |-> by_tags, resp |-> resp, matched |-> matched]

\* one turn of the for loop, lines 206-211: the machine tags match
filter_by_tags ==
    /\ pc = "filter"
    /\ idx <= Len(photos)
    /\ LET photo == photos[idx] IN
         /\ tags_match(camera_model, photo.machine_tags)
         /\ matching_ids' = Append(matching_ids, photo.id)
         /\ judged' = Append(judged, Judged(photo, TRUE, ExifError, TRUE))
    /\ idx' = idx + 1
    /\ UNCHANGED <<pc, args, search_vars, album_vars, calls, out, exit_status>>

\* one turn of the for loop, lines 212-215: the fallback to getExif
filter_by_exif(Answers) ==
    /\ pc = "filter"
    /\ idx <= Len(photos)
    /\ LET photo == photos[idx] IN
         /\ ~tags_match(camera_model, photo.machine_tags)
         /\ \E resp \in Answers :
              LET model == get_camera_for_photo(resp)
                  matched == exif_matches(model, camera_model)
              IN /\ calls' = Append(calls, Call("getExif", <<>>, photo.id))
                 /\ matching_ids' = IF matched THEN Append(matching_ids, photo.id)
                                    ELSE matching_ids
                 /\ judged' = Append(judged, Judged(photo, FALSE, resp, matched))
    /\ idx' = idx + 1
    /\ UNCHANGED <<pc, args, search_vars, album_vars, out, exit_status>>

\* mutant: the empty list is only noticed when a photoset is to be created
nothing_matched_create_only(ids) == ids = <<>> /\ ~Truthy(photoset_arg)

\* `not matching_ids`
nothing_matched(ids) == ids = <<>>

\* mutant: `is not None` for the truth value
use_existing_photoset_is_not_none(arg) == arg # None

\* `if args.photoset_id:`
use_existing_photoset(arg) == Truthy(arg)

\* mutant: the first match is withheld as primary in both modes
main_after_filter_withholds_first ==
    /\ pc = "filter"
    /\ idx > Len(photos)
    /\ IF nothing_matched(matching_ids)
       THEN /\ out' = Append(out, "no photos found")
            /\ pc' = "done"
            /\ exit_status' = 0
            /\ UNCHANGED album_vars
       ELSE IF use_existing_photoset(photoset_arg)
       THEN /\ photoset_id' = photoset_arg[1]
            /\ photo_ids' = Tail(matching_ids)
            /\ k' = 1
            /\ out' = out \o <<"found", "adding to existing photoset">>
            /\ pc' = "add"
            /\ UNCHANGED <<album, exit_status>>
       ELSE /\ out' = out \o <<"found", "creating">>
            /\ pc' = "create"
            /\ UNCHANGED <<album_vars, exit_status>>
    /\ UNCHANGED <<args, search_vars, filter_vars, calls>>

\* main, lines 297-313: nothing matched, or choose between the two modes
main_after_filter ==
    /\ pc = "filter"
    /\ idx > Len(photos)
    /\ IF nothing_matched(matching_ids)
       THEN /\ out' = Append(out, "no photos found")
            /\ pc' = "done"
            /\ exit_status' = 0
            /\ UNCHANGED album_vars
       ELSE IF use_existing_photoset(photoset_arg)
       THEN /\ photoset_id' = photoset_arg[1]
            /\ photo_ids' = matching_ids
            /\ k' = 1
            /\ out' = out \o <<"found", "adding to existing photoset">>
            /\ pc' = "add"
            /\ UNCHANGED <<album, exit_status>>
       ELSE /\ out' = out \o <<"found", "creating">>
            /\ pc' = "create"
            /\ UNCHANGED <<album_vars, exit_status>>
    /\ UNCHANGED <<args, search_vars, filter_vars, calls>>

\* ------------------------------------------------------- create_photoset
\* main, lines 312-319, with create_photoset: the first match is the primary
create_photoset ==
    /\ pc = "create"
    /\ LET primary_id == matching_ids[1]
           rest_ids == Tail(matching_ids)
       IN /\ calls' = Append(calls, Call("create", <<>>, primary_id))
          /\ photoset_id' = NewPhotosetId
          /\ album' = <<primary_id>>
          /\ photo_ids' = rest_ids
          /\ k' = 1
          /\ IF rest_ids # <<>>
             THEN /\ pc' = "add"
                  /\ out' = Append(out, "created")
                  /\ UNCHANGED exit_status
             ELSE /\ pc' = "done"
                  /\ out' = out \o <<"created", "all photos added">>
                  /\ exit_status' = 0
    /\ UNCHANGED <<args, search_vars, filter_vars>>

\* flickr.photosets.create raises: nothing catches it
create_raises ==
    /\ pc = "create"
    /\ calls' = Append(calls, Call("create", <<>>, matching_ids[1]))
    /\ pc' = "raised"
    /\ exit_status' = 1
    /\ UNCHANGED <<args, search_vars, filter_vars, album_vars, out>>

\* ------------------------------------------------ add_photos_to_photoset
\* one turn of the for loop: addPhoto succeeds (the service refuses a photo
\* that is already in the set); after the last one main prints and returns
add_photo ==
    /\ pc = "add"
    /\ k <= Len(photo_ids)
    /\ photo_ids[k] \notin Range(album)
    /\ calls' = Append(calls, Call("addPhoto", photoset_id, photo_ids[k]))
    /\ album' = Append(album, photo_ids[k])
    /\ k' = k + 1
    /\ IF k = Len(photo_ids)
       THEN /\ pc' = "done"
            /\ out' = Append(out, IF Truthy(photoset_arg) THEN "done"
                                  ELSE "all photos added")
            /\ exit_status' = 0
       ELSE UNCHANGED <<pc, out, exit_status>>
    /\ UNCHANGED <<args, search_vars, filter_vars, photoset_id, photo_ids>>

\* mutant: the error is caught and the loop goes on with the next photo
add_photo_raises_caught ==
    /\ pc = "add"
    /\ k <= Len(photo_ids)
    /\ calls' = Append(calls, Call("addPhoto", photoset_id, photo_ids[k]))
    /\ k' = k + 1
    /\ IF k = Len(photo_ids)
       THEN /\ pc' = "done"
            /\ out' = Append(out, "done")
            /\ exit_status' = 0
       ELSE UNCHANGED <<pc, out, exit_status>>
    /\ UNCHANGED <<args, search_vars, filter_vars, photoset_id, photo_ids, album>>

\* one turn of the for loop: addPhoto raises (the photo is already in the
\* set, or the call fails): nothing catches it
add_photo_raises ==
    /\ pc = "add"
    /\ k <= Len(photo_ids)
    /\ calls' = Append(calls, Call("addPhoto", photoset_id, photo_ids[k]))
    /\ pc' = "raised"
    /\ exit_status' = 1
    /\ UNCHANGED <<args, search_vars, filter_vars, album_vars, out>>

\* ------------------------------------------------------------ the run
\* the state before search_photos_by_user returns, but for `photos`
FreshButPhotos ==
    /\ page = 1
    /\ fetched = <<>>
    /\ idx = 1
    /\ matching_ids = <<>>
    /\ judged = <<>>
    /\ photoset_id = <<>>
    /\ photo_ids = <<>>
    /\ k = 1
    /\ album = <<>>
    /\ calls = <<>>
    /\ out = <<>>
    /\ exit_status = -1

Fresh == photos = <<>> /\ FreshButPhotos

Init ==
    /\ pc = "main"
    /\ api_key \in KeyStrings
    /\ api_secret \in KeyStrings
    /\ camera_model \in RunModels
    /\ photoset_arg \in PhotosetArgs
    /\ Fresh

Next ==
    \/ main_check_credentials
    \/ authenticate
    \/ search_photos_by_user(RunPages)
    \/ search_raises
    \/ filter_by_tags
    \/ filter_by_exif(RunExif)
    \/ main_after_filter
    \/ create_photoset
    \/ create_raises
    \/ add_photo
    \/ add_photo_raises

Spec == Init /\ [][Next]_vars

\* ------------------------------------ search_photos_by_user on its own
\* pages of up to MaxPageLen records; the machine tags play no part
SearchPhotos == {Photo(i, <<>>) : i \in Ids}
SearchPages == StrUpTo(SearchPhotos, MaxPageLen)

InitSearch ==
    /\ pc = "search"
    /\ api_key = <<"k">>
    /\ api_secret = <<"k">>
    /\ camera_model \in RunModels
    /\ photoset_arg = None
    /\ Fresh

NextSearch ==
    \/ search_photos_by_user(SearchPages)
    \/ search_raises

SpecSearch == InitSearch /\ [][NextSearch]_vars

\* ---------------------------- filter_photos_by_camera: the machine tags
\* every camera model and every tag string over the alphabet, on the first
\* of two records; the second record has no tags and its lookup fails
InitTags ==
    /\ pc = "filter"
    /\ api_key = <<"k">>
    /\ api_secret = <<"k">>
    /\ camera_model \in StrUpTo(Alphabet, MaxModelLen)
    /\ photoset_arg = None
    /\ FreshButPhotos
    /\ \E t \in StrUpTo(Alphabet, MaxTagLen) :
         photos = <<Photo(1, t), Photo(2, <<>>)>>

NextTags ==
    \/ filter_by_tags
    \/ filter_by_exif({ExifError})

SpecTags == InitTags /\ [][NextTags]_vars

\* ------------------------------ filter_photos_by_camera: the EXIF lookup
\* two records that the tags do not settle (except for the empty camera
\* model, which every non-empty tag string contains); the first lookup
\* fails or gives the model, the second gives any answer
ExifLabels == {<<>>, LabelModel, LabelMake}
ExifValues ==
    { Raw(FALSE, None), Raw(TRUE, None),
      Raw(TRUE, Some(<<>>)), Raw(TRUE, Some(<<"a", "B">>)), Raw(TRUE, Some(<<"a">>)),
      Raw(FALSE, Some(<<"A", "B">>)) }
ExifTags == {ExifTag(l, t, r) : l \in ExifLabels, t \in ExifLabels, r \in ExifValues}
ExifAnswers == {ExifError} \cup {ExifOk(e) : e \in StrUpTo(ExifTags, MaxExifLen)}
FirstAnswers ==
    { ExifError,
      ExifOk(<<ExifTag(LabelModel, <<>>, Raw(TRUE, Some(<<"A", "b">>)))>>) }

InitExif ==
    /\ pc = "filter"
    /\ api_key = <<"k">>
    /\ api_secret = <<"k">>
    /\ camera_model \in {<<>>, <<"A", "b">>}
    /\ photoset_arg = None
    /\ FreshButPhotos
    /\ \E t \in {<<>>, <<"b">>} :
         photos = <<Photo(1, <<>>), Photo(2, t)>>

NextExif ==
    \/ filter_by_tags
    \/ filter_by_exif(IF idx = 1 THEN FirstAnswers ELSE ExifAnswers)

SpecExif == InitExif /\ [][NextExif]_vars

\* ------------------------------------ add_photos_to_photoset on its own
\* called on an existing photoset, or on a new one that holds its primary
InitAdd ==
    /\ pc = "add"
    /\ api_key = <<"k">>
    /\ api_secret = <<"k">>
    /\ camera_model \in RunModels
    /\ page = 1
    /\ photos = <<>>
    /\ fetched = <<>>
    /\ idx = 1
    /\ matching_ids = <<>>
    /\ judged = <<>>
    /\ photo_ids \in StrUpTo(Ids, MaxAddLen)
    /\ k = 1
    /\ \/ /\ photoset_arg = Some(ExistingPhotosetId)
          /\ photoset_id = ExistingPhotosetId
          /\ album = <<>>
       \/ /\ photoset_arg = None
          /\ photoset_id = NewPhotosetId
          /\ \E primary \in Ids : album = <<primary>>
    /\ calls = <<>>
    /\ out = <<>>
    /\ exit_status = -1

NextAdd ==
    \/ add_photo
    \/ add_photo_raises

SpecAdd == InitAdd /\ [][NextAdd]_vars

\* ====================================================== the properties
\* Words of the claims, defined without the operators of the program.

\* the calls of one kind, in the order the service received them
CallsOf(op) == SelectSeq(calls, LAMBDA c : c.op = op)

\* the photo ids (or page numbers) of a sequence of calls
Numbers(cs) == [i \in 1..Len(cs) |-> cs[i].n]

CreateCalls == CallsOf("create")
AddCalls == CallsOf("addPhoto")
AddIds == Numbers(AddCalls)

IsPrefix(s, t) == Len(s) <= Len(t) /\ SubSeq(t, 1, Len(s)) = s

NoDuplicates(s) == \A i, j \in 1..Len(s) : i < j => s[i] # s[j]

\* an existing album id was given on the command line
AlbumIdSupplied == photoset_arg # None /\ Len(photoset_arg[1]) > 0

\* filter_photos_by_camera has returned to main and main has gone on
MatcherReturned == \E i \in 1..Len(out) : out[i] \in {"found", "no photos found"}

\* upper-case letters and their lower-case forms
CasePairs ==
    { <<"A", "a">>, <<"B", "b">>, <<"D", "d">>, <<"E", "e">>, <<"K", "k">>,
      <<"L", "l">>, <<"M", "m">>, <<"O", "o">> }

SameLetter(c, d) == c = d \/ <<c, d>> \in CasePairs \/ <<d, c>> \in CasePairs

EqualIgnoringCase(s, t) ==
    Len(s) = Len(t) /\ \A i \in 1..Len(s) : SameLetter(s[i], t[i])

Folded(c) == IF \E q \in CasePairs : q[1] = c
             THEN (CHOOSE q \in CasePairs : q[1] = c)[2] ELSE c

\* lower-cased, without spaces, hyphens and underscores
Normalized(s) ==
    SelectSeq([i \in 1..Len(s) |-> Folded(s[i])], LAMBDA c : c \notin Separators)

OccursIn(sub, s) ==
    \E a \in 0..Len(s) :
        /\ a + Len(sub) <= Len(s)
        /\ \A q \in 1..Len(sub) : s[a + q] = sub[q]

\* the entry is a "Model" entry by its label or by its tag key
IsModelEntry(e) ==
    EqualIgnoringCase(e.label, ModelLiteral) \/ EqualIgnoringCase(e.tag, ModelLiteral)

\* the entry has a value (an empty one counts as none) equal to the target
ValueEquals(e, target) ==
    /\ e.raw.val # None
    /\ Len(e.raw.val[1]) > 0
    /\ EqualIgnoringCase(e.raw.val[1], target)

SomeModelEntryMatches(resp, target) ==
    resp.ok /\ \E i \in 1..Len(resp.exif) :
        IsModelEntry(resp.exif[i]) /\ ValueEquals(resp.exif[i], target)

FirstModelEntryMatches(resp, target) ==
    resp.ok /\ \E i \in 1..Len(resp.exif) :
        /\ IsModelEntry(resp.exif[i])
        /\ \A h \in 1..(i - 1) : ~IsModelEntry(resp.exif[h])
        /\ ValueEquals(resp.exif[i], target)

\* the records the machine tags did not settle
Unsettled == SelectSeq(judged, LAMBDA j : ~j.by_tags)

\* the filter judges the records in order, with one getExif call for each record
\* the tags did not settle and none for the others
OneLookupPerUnsettledRecord ==
    /\ Len(judged) <= Len(photos)
    /\ \A i \in 1..Len(judged) : judged[i].photo = photos[i]
    /\ pc = "filter" => Len(judged) = idx - 1
    /\ Numbers(CallsOf("getExif")) = [i \in 1..Len(Unsettled) |-> Unsettled[i].photo.id]

RECURSIVE Flatten(_)
Flatten(responses) ==
    IF responses = <<>> THEN <<>>
    ELSE Head(responses).photo \o Flatten(Tail(responses))

\* what add_photos_to_photoset has put in the photoset (a new photoset holds
\* its primary photo before)
AddedByLoop == SubSeq(album, IF AlbumIdSupplied THEN 1 ELSE 2, Len(album))

\* ------------------------------------------------------------------- C1
\* C1 (checked under Spec): in create mode a run that completes issues one
\* create call whose primary is the first match, then one add call per
\* remaining match in order; and the primary's identifier is never passed to
\* an add call.
C1_CreateThenAddRest ==
    /\ (pc = "done" /\ ~AlbumIdSupplied /\ matching_ids # <<>>) =>
          /\ Numbers(CreateCalls) = <<matching_ids[1]>>
          /\ AddIds = Tail(matching_ids)
    /\ \A i, j \in 1..Len(calls) :
          (calls[i].op = "create" /\ calls[j].op = "addPhoto") =>
              (i < j /\ calls[j].n # calls[i].n)

\* ------------------------------------------------------------------- C5
\* C5 (checked under Spec): when the filter has returned, its result is the
\* identifiers of the records judged to match, in the order of the input, and
\* no identifier is in it twice.
C5_MatcherOutput ==
    MatcherReturned =>
        /\ Len(judged) = Len(photos)
        /\ matching_ids = [i \in 1..Len(SelectSeq(judged, LAMBDA j : j.matched)) |->
                             SelectSeq(judged, LAMBDA j : j.matched)[i].photo.id]
        /\ NoDuplicates(matching_ids)

\* ------------------------------------------------------------------- C6
\* C6 (checked under Spec): once the filter has returned no identifier, in
\* either mode, the run has ended with status 0 after printing that no photos
\* were found, and no create call and no add call was ever issued.
C6_EmptyMatchSet ==
    /\ (MatcherReturned /\ matching_ids = <<>>) =>
          /\ pc = "done"
          /\ exit_status = 0
          /\ out[Len(out)] = "no photos found"
          /\ CreateCalls = <<>>
          /\ AddCalls = <<>>
    /\ (pc = "filter" /\ matching_ids = <<>>) => (CreateCalls = <<>> /\ AddCalls = <<>>)
    /\ (pc \in {"create", "add"}) => matching_ids # <<>>

C6_Witness ==
    /\ pc = "done"
    /\ matching_ids = <<>>
    /\ Len(judged) = 2
    /\ AlbumIdSupplied
    /\ out[Len(out)] = "no photos found"

\* ------------------------------------------------------------------- C7
\* C7 as stated (checked under Spec): with an album id supplied and n >= 1
\* matches, the run ends having issued exactly n add calls, one per match in
\* order, against the supplied id, and no create call.  It is taken here for
\* the matched lists without a repeated identifier, which the claim includes.
C7_ExactlyNAddCalls ==
    (pc \in {"done", "raised"} /\ AlbumIdSupplied /\ MatcherReturned
        /\ matching_ids # <<>> /\ NoDuplicates(matching_ids)) =>
        /\ AddIds = matching_ids
        /\ \A i \in 1..Len(AddCalls) : AddCalls[i].album = photoset_arg[1]
        /\ CreateCalls = <<>>

\* C7 amended (checked under Spec): with an album id supplied there is no
\* create call, and the add calls go to the supplied id for the matches in
\* order from the first one, one call per match, until all n are issued or an
\* add call fails; a run none of whose add calls fails issues exactly n.
C7_AppendMode ==
    AlbumIdSupplied =>
        /\ CreateCalls = <<>>
        /\ \A i \in 1..Len(AddCalls) : AddCalls[i].album = photoset_arg[1]
        /\ IsPrefix(AddIds, matching_ids)
        /\ AddCalls # <<>> => MatcherReturned
        /\ IsPrefix(album, AddIds)
        /\ Len(AddIds) - Len(album) \in {0, 1}
        /\ (pc = "done" /\ matching_ids # <<>>) => AddIds = matching_ids
        /\ (MatcherReturned /\ album = AddIds) =>
              (pc = "add" \/ (pc = "done" /\ AddIds = matching_ids))

C7_Witness ==
    /\ pc = "done"
    /\ AlbumIdSupplied
    /\ Len(matching_ids) = 2
    /\ AddIds = matching_ids
    /\ album = matching_ids

\* ------------------------------------------------------------------- C8
\* C8 (checked under Spec): with an empty key or secret the run makes no
\* remote call of any kind and exits with a non-zero status; and whenever a
\* remote call has been made, the credentials check has passed before.
C8_CredentialsFirst ==
    /\ (Len(api_key) = 0 \/ Len(api_secret) = 0) =>
          /\ calls = <<>>
          /\ pc \in {"main", "exited"}
          /\ pc = "exited" => exit_status > 0
    /\ calls # <<>> =>
          /\ Len(api_key) > 0 /\ Len(api_secret) > 0
          /\ pc \notin {"main", "exited"}
    /\ pc = "exited" => (Len(api_key) = 0 \/ Len(api_secret) = 0)

C8_Witness ==
    /\ pc = "exited"
    /\ Len(api_key) > 0
    /\ Len(api_secret) = 0
    /\ exit_status = 1
    /\ calls = <<>>

\* ------------------------------------------------------------------- C9
\* C9 as stated (checked under Spec): a run that ends normally has issued
\* exactly one create call when no album id was supplied, and none when one
\* was supplied, all add calls then going to the supplied id.
C9_CreatedExactlyOnce ==
    pc = "done" =>
        IF AlbumIdSupplied
        THEN /\ CreateCalls = <<>>
             /\ \A i \in 1..Len(AddCalls) : AddCalls[i].album = photoset_arg[1]
        ELSE Len(CreateCalls) = 1

\* C9 amended (checked under Spec): no run issues more than one create call;
\* a run that ends normally with no album id supplied has issued exactly one
\* if a photo matched and none if nothing matched; with an album id supplied
\* no album is created and every add call goes to the supplied id.
C9_CreatedAtMostOnce ==
    /\ Len(CreateCalls) <= 1
    /\ AlbumIdSupplied =>
          /\ CreateCalls = <<>>
          /\ \A i \in 1..Len(AddCalls) : AddCalls[i].album = photoset_arg[1]
    /\ ~AlbumIdSupplied =>
          /\ AddCalls # <<>> => Len(CreateCalls) = 1
          /\ \A i \in 1..Len(AddCalls) : AddCalls[i].album = NewPhotosetId
    /\ (pc = "done" /\ ~AlbumIdSupplied) =>
          (Len(CreateCalls) = 1 <=> matching_ids # <<>>)

C9_Witness ==
    /\ pc = "done"
    /\ ~AlbumIdSupplied
    /\ Len(CreateCalls) = 1
    /\ Len(AddCalls) = 1
    /\ AddCalls[1].album = NewPhotosetId

\* ------------------------------------------------------------------ C10
\* C10 (checked under SpecAdd): an add call that fails ends the run with a
\* non-zero status: it is the last call, the k-th of the loop; the photos at
\* positions 1..k-1 are in the photoset and stay there; no call is made for a
\* later position and none is repeated.
C10_AddFailureAborts ==
    /\ IsPrefix(AddIds, photo_ids)
    /\ IsPrefix(AddedByLoop, AddIds)
    /\ Len(AddIds) - Len(AddedByLoop) \in {0, 1}
    /\ Len(AddIds) > Len(AddedByLoop) =>
          /\ pc = "raised"
          /\ exit_status > 0
          /\ k = Len(AddIds)
          /\ AddedByLoop = SubSeq(photo_ids, 1, k - 1)
    /\ pc = "raised" => Len(AddIds) = Len(AddedByLoop) + 1

C10_Witness ==
    /\ pc = "raised"
    /\ Len(photo_ids) = 3
    /\ k = 2
    /\ AddIds = SubSeq(photo_ids, 1, 2)
    /\ AddedByLoop = <<photo_ids[1]>>

\* ------------------------------------------------------------------- C4
\* C4 (checked under SpecSearch): the pages are asked for as 1, 2, 3, ... with
\* none skipped; the list is the pages' records one page after the other;
\* the loop goes on while the page asked for is below the page count of the
\* answer and returns at the first answer whose page count it has reached, so
\* P fetches when every answer reports P >= 1 pages.
C4_Enumeration ==
    LET n == Len(fetched)
        asked == Numbers(CallsOf("search"))
    IN /\ photos = Flatten(fetched)
       /\ \A i \in 1..Len(asked) : asked[i] = i
       /\ pc = "search" =>
             /\ Len(asked) = n
             /\ page = n + 1
             /\ \A i \in 1..n : i < fetched[i].pages
       /\ pc = "filter" =>
             /\ Len(asked) = n
             /\ n >= 1
             /\ n >= fetched[n].pages
             /\ \A i \in 1..(n - 1) : i < fetched[i].pages
             /\ \A P \in 1..MaxPages :
                   (\A i \in 1..n : fetched[i].pages = P) => n = P
       /\ pc = "raised" => Len(asked) = n + 1

C4_Witness ==
    /\ pc = "filter"
    /\ Len(fetched) = 2
    /\ fetched[1].pages = 2
    /\ fetched[2].pages = 2
    /\ Len(fetched[1].photo) = 2
    /\ Len(fetched[2].photo) = 1
    /\ Len(photos) = 3
    /\ photos[1].id # photos[2].id

\* ------------------------------------------------------------------- C3
\* C3 (checked under SpecTags): a record whose tag string, lower-cased and
\* without spaces, hyphens and underscores, contains the camera model treated
\* the same way is a match and no getExif call is made for it; the tags settle
\* no other record.
C3_TagFastPath ==
    /\ OneLookupPerUnsettledRecord
    /\ \A i \in 1..Len(judged) :
          LET tags == judged[i].photo.machine_tags
              contained == /\ tags # <<>>
                           /\ OccursIn(Normalized(camera_model), Normalized(tags))
          IN /\ contained =>
                   /\ judged[i].by_tags
                   /\ judged[i].matched
                   /\ judged[i].photo.id \in Range(matching_ids)
                   /\ \A c \in 1..Len(calls) :
                         ~(calls[c].op = "getExif" /\ calls[c].n = judged[i].photo.id)
             /\ judged[i].by_tags => contained

C3_Witness ==
    /\ Len(judged) = 2
    /\ camera_model = <<"a", "b">>
    /\ judged[1].photo.machine_tags = <<"A", "_", "b">>
    /\ judged[1].by_tags
    /\ matching_ids = <<1>>
    /\ Len(calls) = 1
    /\ calls[1].n = 2

\* ------------------------------------------------------------------- C2
\* C2 as stated (checked under SpecExif): a record the tags do not settle gets
\* exactly one getExif call and is a match exactly when some entry of the
\* answer is a Model entry (by label or tag key, ignoring case) whose value
\* (an empty one counts as none) equals the camera model ignoring case; a
\* failed lookup is no match and the next records are still judged.
C2_SomeModelEntry ==
    /\ OneLookupPerUnsettledRecord
    /\ \A i \in 1..Len(judged) :
          ~judged[i].by_tags =>
              (judged[i].matched <=> SomeModelEntryMatches(judged[i].resp, camera_model))

\* C2 amended (checked under SpecExif): as above, but the verdict is that of
\* the first Model entry of the answer: a match exactly when that entry has
\* a value (an empty one counts as none) equal to the camera model ignoring
\* case, whatever the entries after it hold.
C2_FirstModelEntry ==
    /\ OneLookupPerUnsettledRecord
    /\ \A i \in 1..Len(judged) :
          ~judged[i].by_tags =>
              /\ judged[i].matched <=> FirstModelEntryMatches(judged[i].resp, camera_model)
              /\ judged[i].matched <=> judged[i].photo.id \in Range(matching_ids)
              /\ ~judged[i].resp.ok => ~judged[i].matched

C2_Witness ==
    /\ Len(judged) = 2
    /\ judged[1].resp = ExifError
    /\ ~judged[1].matched
    /\ ~judged[2].by_tags
    /\ judged[2].matched
    /\ judged[2].photo.machine_tags # <<>>
    /\ Len(judged[2].resp.exif) = 2
    /\ ~IsModelEntry(judged[2].resp.exif[1])
    /\ matching_ids = <<2>>
    /\ Len(calls) = 2

=============================================================================
